---- MODULE Spec2Model ----
(***************************************************************************)
(* Model of the real-estate exploration application:                       *)
(*   src/exploration.py   PandasModel, RealEstateFilterProxy,              *)
(*                        ExplorationTab, CartographyTab                   *)
(*   src/cartographie.py  CartographyDynamic (a separate program with its  *)
(*                        own widgets and its own filter, filtered_df)     *)
(*                                                                         *)
(* Strings are sequences of one-character strings.  Table cells are the    *)
(* values pandas hands out from DataFrame.iat: an integer, a float, NaN    *)
(* (the float pandas stores for a missing value), None, or a str.          *)
(* Rows are numbered from 0 as in the code; the sequence df.rows is        *)
(* 1-based, so row r is df.rows[r + 1].                                    *)
(***************************************************************************)
EXTENDS Integers, Sequences, FiniteSets, TLC

VARIABLES
    app,        \* what was built: "exploration" (MainWindow of exploration.py),
                \* "MainWindow" (that window left with no central widget),
                \* "CartographyTab" (that tab on the proxy and model of an
                \* ExplorationTab) or "cartographie" (CartographyDynamic)
    df,         \* the loaded DataFrame: [cols, rows]
    widgets,    \* ExplorationTab: values of the spin boxes and text fields
    proxy,      \* RealEstateFilterProxy: fields min_price .. search_text
    sortState,  \* the proxy's sort column and order
    visible,    \* the proxy's mapping: source rows in proxy (table) order
    dyn,        \* CartographyDynamic: values of its widgets
    web,        \* CartographyDynamic.web: the map it displays
    last,       \* the handler that ran last and what it produced
    np_random   \* numpy's global generator: the state unseeded draws start from

vars == <<app, df, widgets, proxy, sortState, visible, dyn, web, last, np_random>>

(***************************************************************************)
(* Bounds of the model.                                                    *)
(***************************************************************************)
\* Largest number of rows of a DataFrame.
MaxRows == 3
\* Largest number of filter widgets away from their default at once.
MaxActive == 2
\* Header sections the user clicks: the first MaxSortCol columns.
MaxSortCol == 1

(***************************************************************************)
(* Strings.                                                                *)
(***************************************************************************)
\* The characters used, in code point order (QString::compare and Python
\* compare strings by code point).
Alphabet ==
    << " ", ".",
       "0", "1", "2", "3", "4", "5", "6", "7", "8", "9",
       "A", "B", "C", "D", "E", "F", "G", "H", "I", "J", "K", "L", "M",
       "N", "O", "P", "Q", "R", "S", "T", "U", "V", "W", "X", "Y", "Z",
       "a", "b", "c", "d", "e", "f", "g", "h", "i", "j", "k", "l", "m",
       "n", "o", "p", "q", "r", "s", "t", "u", "v", "w", "x", "y", "z" >>

Ord == [c \in {Alphabet[i] : i \in 1..Len(Alphabet)} |->
            CHOOSE i \in 1..Len(Alphabet) : Alphabet[i] = c]

UpperCase == SubSeq(Alphabet, 13, 38)
LowerCase == SubSeq(Alphabet, 39, 64)

\* str.lower() on one character
LowerChar(c) ==
    IF \E i \in 1..Len(UpperCase) : UpperCase[i] = c
    THEN LowerCase[CHOOSE i \in 1..Len(UpperCase) : UpperCase[i] = c]
    ELSE c

\* str.lower()
Lower(s) == [i \in 1..Len(s) |-> LowerChar(s[i])]

\* needle in hay (Python's substring test)
Contains(needle, hay) ==
    \E i \in 0..(Len(hay) - Len(needle)) :
        \A j \in 1..Len(needle) : hay[i + j] = needle[j]

\* str.strip(): leading and trailing blanks removed
RECURSIVE LStrip(_)
LStrip(s) == IF s # <<>> /\ Head(s) = " " THEN LStrip(Tail(s)) ELSE s
RECURSIVE RStrip(_)
RStrip(s) ==
    IF s # <<>> /\ s[Len(s)] = " " THEN RStrip(SubSeq(s, 1, Len(s) - 1)) ELSE s
Strip(s) == RStrip(LStrip(s))

\* QString::compare(a, b, Qt::CaseSensitive) < 0: lexicographic by code point
RECURSIVE StrLess(_, _)
StrLess(a, b) ==
    IF b = <<>> THEN FALSE
    ELSE IF a = <<>> THEN TRUE
    ELSE IF Head(a) # Head(b) THEN Ord[Head(a)] < Ord[Head(b)]
    ELSE StrLess(Tail(a), Tail(b))

Digits == SubSeq(Alphabet, 3, 12)

\* str(n) of a non-negative integer
RECURSIVE Dec(_)
Dec(n) == IF n < 10 THEN <<Digits[n + 1]>>
          ELSE Dec(n \div 10) \o <<Digits[(n % 10) + 1]>>

\* three digits, zero padded: one group of f"{n:,}"
Pad3(n) == <<Digits[(n \div 100) + 1], Digits[((n \div 10) % 10) + 1],
             Digits[(n % 10) + 1]>>

\* f"{n:,}".replace(',', ' ')
RECURSIVE Grouped(_)
Grouped(n) == IF n < 1000 THEN Dec(n)
              ELSE Grouped(n \div 1000) \o <<" ">> \o Pad3(n % 1000)

(***************************************************************************)
(* Cells: the values of DataFrame.iat.                                     *)
(***************************************************************************)
IntCell(n)   == [k |-> "int",   n |-> n, s |-> <<>>]
\* a float with an integral value (pandas makes a numeric column with a
\* missing value float64)
FloatCell(n) == [k |-> "float", n |-> n, s |-> <<>>]
NaN          == [k |-> "nan",   n |-> 0, s |-> <<>>]
NoneCell     == [k |-> "none",  n |-> 0, s |-> <<>>]
Text(s)      == [k |-> "str",   n |-> 0, s |-> s]

\* isinstance(v, (int, float, np.integer, np.floating)); NaN is a float
IsNumber(v) == v.k \in {"int", "float", "nan"}
\* a number that is not NaN
HasValue(v) == v.k \in {"int", "float"}

\* Python truth value, as used by `v or ""`: NaN is a non-zero float
Truthy(v) ==
    CASE v.k = "int"   -> v.n # 0
      [] v.k = "float" -> v.n # 0
      [] v.k = "nan"   -> TRUE
      [] v.k = "none"  -> FALSE
      [] v.k = "str"   -> v.s # <<>>

\* str(v)
PyStr(v) ==
    CASE v.k = "int"   -> Dec(v.n)
      [] v.k = "float" -> Dec(v.n) \o <<".", "0">>
      [] v.k = "nan"   -> <<"n", "a", "n">>
      [] v.k = "none"  -> <<"N", "o", "n", "e">>
      [] v.k = "str"   -> v.s

\* str(v or "")
StrOrEmpty(v) == IF Truthy(v) THEN PyStr(v) ELSE <<>>

\* Mutant: the lower bound made exclusive (`<=` for `<`)
NumLess_orEqual(v, bound) == HasValue(v) /\ v.n <= bound

\* v < bound and v > bound of Python: every comparison with NaN is False
NumLess(v, bound)    == HasValue(v) /\ v.n < bound
NumGreater(v, bound) == HasValue(v) /\ v.n > bound

(***************************************************************************)
(* PandasModel.                                                            *)
(***************************************************************************)
rowCount(d) == Len(d.rows)

AllRows(d) == 0..(rowCount(d) - 1)

HasColumn(d, name) == \E i \in 1..Len(d.cols) : d.cols[i] = name

\* PandasModel.data(index, DisplayRole): the text of a cell.  An integer is
\* grouped with blanks; a float is formatted with two decimals and ".00" is
\* dropped, which for an integral float leaves the grouped integer; NaN is a
\* float and formats as "nan"; anything else is str(val).
data(d, row, column) ==
    LET val == d.rows[row + 1][d.cols[column + 1]]
    IN  CASE val.k = "int"   -> Grouped(val.n)
          [] val.k = "float" -> Grouped(val.n)
          [] val.k = "nan"   -> <<"n", "a", "n">>
          [] OTHER           -> PyStr(val)

(***************************************************************************)
(* RealEstateFilterProxy.                                                  *)
(***************************************************************************)
\* An optional bound: None is <<>>, the number x is <<x>>.
None == <<>>
Some(x) == <<x>>

\* RealEstateFilterProxy.__init__: every filter disabled
ProxyDefaults ==
    [min_price |-> None, max_price |-> None,
     min_space |-> None, max_space |-> None,
     min_beds |-> None, max_beds |-> None,
     city_substr |-> <<>>, state_exact |-> <<>>,
     min_income |-> None, max_income |-> None,
     search_text |-> <<>>]

\* val(col_name) of filterAcceptsRow: None when the column is absent
val(d, source_row, col_name) ==
    IF HasColumn(d, col_name) THEN d.rows[source_row + 1][col_name] ELSE NoneCell

\* One numeric block of filterAcceptsRow: the row is rejected only when the
\* value is a number and lies below lo or above hi.
RangeRejects(v, lo, hi) ==
    /\ v.k # "none"
    /\ IsNumber(v)
    /\ \/ lo # None /\ NumLess(v, lo[1])
       \/ hi # None /\ NumGreater(v, hi[1])

\* The City and Address blocks: `needle and needle.lower() not in s.lower()`
SubstringRejects(v, needle) ==
    /\ needle # <<>>
    /\ ~Contains(Lower(needle), Lower(StrOrEmpty(v)))

\* The State block: `state_exact and state != state_exact`
ExactRejects(v, literal) ==
    /\ literal # <<>>
    /\ StrOrEmpty(v) # literal

filterAcceptsRow(d, p, source_row) ==
    /\ ~RangeRejects(val(d, source_row, "Price"), p.min_price, p.max_price)
    /\ ~RangeRejects(val(d, source_row, "Living Space"), p.min_space, p.max_space)
    /\ ~RangeRejects(val(d, source_row, "Beds"), p.min_beds, p.max_beds)
    /\ ~RangeRejects(val(d, source_row, "Median Household Income"),
                     p.min_income, p.max_income)
    /\ ~SubstringRejects(val(d, source_row, "City"), p.city_substr)
    /\ ~ExactRejects(val(d, source_row, "State"), p.state_exact)
    /\ ~SubstringRejects(val(d, source_row, "Address"), p.search_text)

(***************************************************************************)
(* QSortFilterProxyModel: the sorted, filtered mapping.  The proxy sorts   *)
(* on the DisplayRole text of the source model (sortRole is not set) and   *)
(* compares it case-sensitively (sortCaseSensitivity is not set;           *)
(* setFilterCaseSensitivity does not touch the sort).                      *)
(***************************************************************************)
Ascending  == "Ascending"
Descending == "Descending"

\* QSortFilterProxyModel.lessThan on two source rows
lessThan(d, column, r1, r2) == StrLess(data(d, r1, column), data(d, r2, column))

\* Whether source row a must come before source row b in the proxy: the
\* comparator handed to std::stable_sort (lessThan, or it with the
\* arguments swapped for a descending sort); source order without a column.
Before(d, st, a, b) ==
    IF st.column >= 0
    THEN IF st.order = Ascending THEN lessThan(d, st.column, a, b)
                                 ELSE lessThan(d, st.column, b, a)
    ELSE a < b

\* Mutant: an unstable sort, x goes in front of the rows it is equal to
RECURSIVE InsertSorted_beforeEquals(_, _, _, _)
InsertSorted_beforeEquals(d, st, sorted, x) ==
    IF sorted = <<>> THEN <<x>>
    ELSE IF ~Before(d, st, Head(sorted), x) THEN <<x>> \o sorted
    ELSE <<Head(sorted)>> \o InsertSorted_beforeEquals(d, st, Tail(sorted), x)

\* std::stable_sort: x goes in front of the first element it must precede
RECURSIVE InsertSorted(_, _, _, _)
InsertSorted(d, st, sorted, x) ==
    IF sorted = <<>> THEN <<x>>
    ELSE IF Before(d, st, x, Head(sorted)) THEN <<x>> \o sorted
    ELSE <<Head(sorted)>> \o InsertSorted(d, st, Tail(sorted), x)

RECURSIVE sort_source_rows(_, _, _)
sort_source_rows(d, st, source_rows) ==
    IF source_rows = <<>> THEN <<>>
    ELSE InsertSorted(d, st,
                      sort_source_rows(d, st, SubSeq(source_rows, 1, Len(source_rows) - 1)),
                      source_rows[Len(source_rows)])

\* The rows of seq that satisfy Keep, in the order of seq
RECURSIVE SelectRows(_, _)
SelectRows(seq, keep) ==
    IF seq = <<>> THEN <<>>
    ELSE IF Head(seq) \in keep THEN <<Head(seq)>> \o SelectRows(Tail(seq), keep)
    ELSE SelectRows(Tail(seq), keep)

RowSet(seq) == {seq[i] : i \in 1..Len(seq)}

\* 0, 1, .., n-1
RECURSIVE Upto(_)
Upto(n) == IF n = 0 THEN <<>> ELSE Upto(n - 1) \o <<n - 1>>

\* The binary search of proxy_intervals_for_source_items_to_add: the proxy
\* position (counted from 0) at which the new source row item is inserted.
RECURSIVE InsertionPoint(_, _, _, _, _, _)
InsertionPoint(d, st, proxy_to_source, item, proxy_low, proxy_high) ==
    IF proxy_low > proxy_high THEN proxy_low
    ELSE LET proxy_item == (proxy_low + proxy_high) \div 2
         IN  IF Before(d, st, item, proxy_to_source[proxy_item + 1])
             THEN InsertionPoint(d, st, proxy_to_source, item, proxy_low, proxy_item - 1)
             ELSE InsertionPoint(d, st, proxy_to_source, item, proxy_item + 1, proxy_high)

\* How many of the leading source_items go into the interval that starts at
\* proxy position proxy_item: all of them at the end of the proxy, else
\* those up to the first one that the row at proxy_item must precede.
RECURSIVE IntervalLength(_, _, _, _, _)
IntervalLength(d, st, proxy_to_source, source_items, proxy_item) ==
    IF source_items = <<>> THEN 0
    ELSE IF proxy_item >= Len(proxy_to_source)
         THEN Len(source_items)
    ELSE IF Before(d, st, proxy_to_source[proxy_item + 1], Head(source_items))
         THEN 0
    ELSE 1 + IntervalLength(d, st, proxy_to_source, Tail(source_items), proxy_item)

\* insert_source_items: the proxy rows from position proxy_low on, with the
\* (sorted) source_items inserted at their intervals.
RECURSIVE insert_source_items(_, _, _, _, _)
insert_source_items(d, st, proxy_to_source, source_items, proxy_low) ==
    IF source_items = <<>>
    THEN SubSeq(proxy_to_source, proxy_low + 1, Len(proxy_to_source))
    ELSE LET proxy_item == InsertionPoint(d, st, proxy_to_source, Head(source_items),
                                          proxy_low, Len(proxy_to_source) - 1)
             n == 1 + IntervalLength(d, st, proxy_to_source, Tail(source_items),
                                     proxy_item)
         IN  SubSeq(proxy_to_source, proxy_low + 1, proxy_item)
               \o SubSeq(source_items, 1, n)
               \o insert_source_items(d, st, proxy_to_source,
                                      SubSeq(source_items, n + 1, Len(source_items)),
                                      proxy_item)

\* Mutant: the rows the filter now rejects stay mapped
invalidateFilter_keepsRejected(d, p, st, proxy_to_source) ==
    LET accepted == {r \in AllRows(d) : filterAcceptsRow(d, p, r)}
        source_items_insert ==
            SelectRows(Upto(rowCount(d)), accepted \ RowSet(proxy_to_source))
    IN  insert_source_items(d, st, proxy_to_source,
                            sort_source_rows(d, st, source_items_insert), 0)

\* invalidateFilter -> handle_filter_changed: mapped rows the filter now
\* rejects are removed; unmapped rows it now accepts are sorted and inserted.
\* Rows that stay mapped keep their places relative to each other.
invalidateFilter(d, p, st, proxy_to_source) ==
    LET accepted == {r \in AllRows(d) : filterAcceptsRow(d, p, r)}
        kept     == SelectRows(proxy_to_source, accepted)
        source_items_insert ==
            SelectRows(Upto(rowCount(d)), accepted \ RowSet(proxy_to_source))
    IN  insert_source_items(d, st, kept,
                            sort_source_rows(d, st, source_items_insert), 0)

(***************************************************************************)
(* The DataFrames the model is run on.                                     *)
(***************************************************************************)
Row(price, city, state, beds, zip, baths, space, address, income, lat, lon) ==
    [c \in {"Price", "City", "State", "Beds", "Zip Code", "Baths", "Living Space",
            "Address", "Median Household Income", "Latitude", "Longitude"} |->
        CASE c = "Price" -> price
          [] c = "City" -> city
          [] c = "State" -> state
          [] c = "Beds" -> beds
          [] c = "Zip Code" -> zip
          [] c = "Baths" -> baths
          [] c = "Living Space" -> space
          [] c = "Address" -> address
          [] c = "Median Household Income" -> income
          [] c = "Latitude" -> lat
          [] c = "Longitude" -> lon]

IL == <<"I", "L">>
CO == <<"C", "O">>

\* Listings: prices on both sides of and on the bounds the filters use,
\* equal prices, prices whose text order differs from their numeric order,
\* missing and non-numeric values, cities differing in case.
Pool ==
    << Row(IntCell(100000), Text(<<"S","p","r","i","n","g","f","i","e","l","d">>),
           Text(IL), IntCell(3), IntCell(62701), IntCell(2), IntCell(1500),
           Text(<<"1","2"," ","O","a","k"," ","S","t">>), IntCell(60000),
           FloatCell(39), FloatCell(89)),
       Row(IntCell(250000), Text(<<"C","h","i","c","a","g","o">>),
           Text(IL), IntCell(2), IntCell(60601), IntCell(1), IntCell(900),
           Text(<<"5"," ","E","l","m"," ","A","v","e">>), IntCell(60000),
           FloatCell(41), FloatCell(87)),
       Row(IntCell(99000),
           Text(<<"C","o","l","o","r","a","d","o"," ","S","p","r","i","n","g","s">>),
           Text(CO), IntCell(3), IntCell(80903), IntCell(2), IntCell(1500),
           Text(<<"7"," ","o","a","k"," ","R","d">>), IntCell(45000),
           NaN, FloatCell(104)),
       Row(FloatCell(250000), NaN,
           Text(IL), NaN, IntCell(62701), NaN, NaN,
           NaN, NaN,
           Text(<<"a","b","c">>), FloatCell(89)),
       Row(NaN, Text(<<"s","p","r","i","n","g","f","i","e","l","d">>),
           NaN, IntCell(3), IntCell(62701), IntCell(2), IntCell(1500),
           NoneCell, IntCell(60000),
           FloatCell(39), NaN),
       Row(Text(<<"a","b","c">>), IntCell(0),
           Text(CO), Text(<<"a","b","c">>), Text(<<"8","0","9","0","3">>), IntCell(1),
           Text(<<"a","b","c">>),
           Text(<<"3"," ","O","A","K"," ","L","n">>), Text(<<"a","b","c">>),
           FloatCell(38), FloatCell(104)) >>

\* The full schema and a partial one (no Price, City, Living Space,
\* Median Household Income, Latitude or Longitude column).  Both tabs read
\* df["State"] when they are built, so State is there.
FullColumns ==
    << "Price", "City", "State", "Beds", "Zip Code", "Baths", "Living Space",
       "Address", "Median Household Income", "Latitude", "Longitude" >>
PartialColumns == << "State", "Beds", "Address", "Zip Code", "Baths" >>

ColumnSet(cols) == {cols[i] : i \in 1..Len(cols)}

\* n consecutive listings of the pool, from listing start on, as a DataFrame
Window(cols, start, n) ==
    [cols |-> cols,
     rows |-> [i \in 1..n |->
                 [c \in ColumnSet(cols) |->
                     Pool[((start + i - 2) % Len(Pool)) + 1][c]]]]

\* Where the windows start: between them they hold every listing
WindowStarts == {1, 2, 4}

DataFrames ==
    {Window(FullColumns, start, MaxRows) : start \in WindowStarts}
    \cup {Window(PartialColumns, 1, MaxRows), Window(FullColumns, 1, 0)}

(***************************************************************************)
(* ExplorationTab.                                                         *)
(***************************************************************************)
SpinNames == {"min_price", "max_price", "min_space", "max_space",
              "min_income", "max_income", "min_beds", "max_beds"}
TextNames == {"city", "state", "search"}

\* _build_filters / _reset_filters: spin boxes at 0, text fields empty
WidgetDefaults ==
    [w \in SpinNames \cup TextNames |-> IF w \in SpinNames THEN IntCell(0) ELSE Text(<<>>)]

\* The values the user sets a spin box to (inside the box's range)
SpinValues(w) ==
    CASE w = "min_price"                    -> {0, 100000}
      [] w = "max_price"                    -> {0, 100000, 250000}
      [] w \in {"min_space", "max_space"}   -> {0, 1500}
      [] w \in {"min_income", "max_income"} -> {0, 60000}
      [] w \in {"min_beds", "max_beds"}     -> {0, 3}

\* The texts the user types into the line edits
LineTexts(w) ==
    CASE w = "city"   -> {<<>>, <<"s","p","r","i","n","g"," ">>, <<"a","n">>}
      [] w = "search" -> {<<>>, <<"o","a","k">>}

\* combo_state: "" and the sorted str of the State values that are not null
ComboItems(d) ==
    {<<>>} \cup {PyStr(d.rows[i]["State"]) :
                    i \in {j \in 1..Len(d.rows) : d.rows[j]["State"].k \notin {"nan", "none"}}}

ActiveCount(w) == Cardinality({x \in DOMAIN w : w[x] # WidgetDefaults[x]})

\* Mutant: the spin box value taken as it is, 0 included
OrNone_keepsZero(x) == Some(x)

\* `spin.value() or None`
OrNone(x) == IF x = 0 THEN None ELSE Some(x)

\* _on_filters_changed, lines 272-294: the proxy's fields from the widgets
ProxyFromWidgets(w) ==
    [min_price |-> OrNone(w["min_price"].n), max_price |-> OrNone(w["max_price"].n),
     min_space |-> OrNone(w["min_space"].n), max_space |-> OrNone(w["max_space"].n),
     min_income |-> OrNone(w["min_income"].n), max_income |-> OrNone(w["max_income"].n),
     min_beds |-> OrNone(w["min_beds"].n), max_beds |-> OrNone(w["max_beds"].n),
     city_substr |-> Strip(w["city"].s),
     state_exact |-> Strip(w["state"].s),
     search_text |-> Strip(w["search"].s)]

\* folium.Map(location=[39.5, -98.35]) in hundredths of a degree
DefaultLocation == <<3950, -9835>>

\* No map: the web view before any map was set, a handler that saved none
NoMap == [shown |-> FALSE, markers |-> <<>>, location |-> <<>>]
\* m.save(tmp.name): the map with one marker per row of `markers`, in order
MapOf(markers) == [shown |-> TRUE, markers |-> markers, location |-> DefaultLocation]

\* What a handler leaves in `last`: the rows it read, whether an exception
\* left it, and the map it saved; `prev` holds the rows of the render right
\* before, when generate_map runs twice in a row with one sample size
DidMap(op, rows, n, raised, map) ==
    [op |-> op, rows |-> rows, n |-> n, raised |-> raised, map |-> map,
     prev |-> <<>>]
Did(op, rows, n, raised) == DidMap(op, rows, n, raised, NoMap)

\* Mutant: the proxy's fields are set and invalidateFilter is not called
_on_filters_changed_noInvalidate(op) ==
    /\ proxy' = ProxyFromWidgets(widgets')
    /\ last' = Did(op, <<>>, 0, FALSE)
    /\ UNCHANGED <<app, np_random, df, sortState, visible, dyn, web>>

\* An ExplorationTab was built: by MainWindow, or for the CartographyTab
\* that takes its proxy and model
HasExplorationTab == app \in {"exploration", "CartographyTab"}

\* _on_filters_changed: the proxy takes the widgets' values and the filter
\* is invalidated
_on_filters_changed(op) ==
    /\ proxy' = ProxyFromWidgets(widgets')
    /\ visible' = invalidateFilter(df, proxy', sortState, visible)
    /\ last' = Did(op, <<>>, 0, FALSE)
    /\ UNCHANGED <<app, np_random, df, sortState, dyn, web>>

\* valueChanged of a spin box
SpinChanged(w, x) ==
    /\ HasExplorationTab
    /\ widgets[w].n # x
    /\ widgets' = [widgets EXCEPT ![w] = IntCell(x)]
    /\ ActiveCount(widgets') <= MaxActive
    /\ _on_filters_changed("changed")

\* textChanged of a line edit, currentTextChanged of the combo box
TextChanged(w, t) ==
    /\ HasExplorationTab
    /\ widgets[w].s # t
    /\ widgets' = [widgets EXCEPT ![w] = Text(t)]
    /\ ActiveCount(widgets') <= MaxActive
    /\ _on_filters_changed("changed")

\* Mutant: the reset leaves the city field as it is
_reset_filters_keepsCity ==
    /\ HasExplorationTab
    /\ widgets' = [WidgetDefaults EXCEPT !["city"] = widgets["city"]]
    /\ _on_filters_changed("_reset_filters")

\* _reset_filters: with their signals blocked the widgets go back to their
\* defaults, then _on_filters_changed is called once
_reset_filters ==
    /\ HasExplorationTab
    /\ widgets' = WidgetDefaults
    /\ _on_filters_changed("_reset_filters")

\* setSortingEnabled(True): a click on header section `column` flips the
\* order of the sorted column, or sorts another column ascending; the view
\* calls proxy.sort, which stable-sorts the mapped rows.
sort(column, order) ==
    /\ sortState' = [column |-> column, order |-> order]
    /\ visible' = sort_source_rows(df, sortState', visible)
    /\ last' = Did("sort", <<>>, 0, FALSE)
    /\ UNCHANGED <<app, np_random, df, widgets, proxy, dyn, web>>

HeaderClicked(column) ==
    /\ HasExplorationTab
    /\ column < Len(df.cols)
    /\ IF sortState.column = column /\ sortState.order = Ascending
       THEN sort(column, Descending)
       ELSE sort(column, Ascending)

\* The state of the table after ExplorationTab.__init__: setModel maps every
\* row in source order, and setSortingEnabled(True) at once sorts by the
\* header's sort indicator, which starts at section 0, descending.
InitialSort == [column |-> 0, order |-> Descending]

\* Mutant: the proxy row number is taken for the source row
mapToSource_identity(proxy_to_source, r) == r

\* proxy.mapToSource(proxy.index(r, 0)).row(): the source row of proxy row r
mapToSource(proxy_to_source, r) == proxy_to_source[r + 1]

\* `for r in range(self.proxy.rowCount()): rows.append(src_index.row())`
ProxyRows(proxy_to_source) ==
    [i \in 1..Len(proxy_to_source) |-> mapToSource(proxy_to_source, i - 1)]

\* df_all.iloc[rows]: the records at the positions `rows`, in that order
iloc(d, rows) == [i \in 1..Len(rows) |-> d.rows[rows[i] + 1]]

\* export_csv with a path chosen in the file dialog (`if not path: return`
\* changes nothing): the source rows of the proxy rows 0 .. rowCount()-1, in
\* proxy order, are what df_all.iloc[rows] writes
export_csv ==
    /\ HasExplorationTab
    /\ last' = Did("export_csv", ProxyRows(visible), 0, FALSE)
    /\ UNCHANGED <<app, np_random, df, widgets, proxy, sortState, visible, dyn, web>>

(***************************************************************************)
(* CartographyTab.                                                         *)
(***************************************************************************)
\* Largest sample size the user sets in sample_spin, besides its default
MaxSample == 2

SampleSizes == 0..MaxSample

\* numpy.random.RandomState(42).permutation(L) for L = 1, 2, ..: what
\* DataFrame.sample(n, random_state=42) takes its first n positions from
Permutation42 ==
    << <<0>>,
       <<1, 0>>,
       <<0, 1, 2>>,
       <<1, 3, 0, 2>>,
       <<1, 4, 2, 0, 3>>,
       <<0, 1, 5, 2, 4, 3>>,
       <<0, 1, 5, 2, 4, 3, 6>>,
       <<1, 5, 0, 7, 2, 4, 3, 6>> >>

\* _filtered_dataframe: the visible source rows in proxy order
_filtered_dataframe == ProxyRows(visible)

\* Largest state of numpy's global generator (states 0 .. MaxGenerator): the
\* process starts in any of them, an unseeded draw moves to the next
MaxGenerator == 1

GeneratorStates == 0..MaxGenerator

\* Mutant: sampling with replacement, a row can be drawn again
Sample_withReplacement(df_f, n, state) ==
    [rows |-> IF n > 0 /\ Len(df_f) > n
              THEN [i \in 1..n |->
                       df_f[Permutation42[Len(df_f)][((i - 1) \div 2) + 1] + 1]]
              ELSE df_f,
     state |-> state]

\* Mutant: df_f.sample(n) without random_state draws from numpy's global
\* generator: the permutation depends on its state, and the draw advances it
Sample_unseeded(df_f, n, state) ==
    [rows |-> IF n > 0 /\ Len(df_f) > n
              THEN [i \in 1..n |->
                       df_f[Permutation42[Len(df_f)][((i - 1 + state) % Len(df_f)) + 1] + 1]]
              ELSE df_f,
     state |-> IF n > 0 /\ Len(df_f) > n THEN (state + 1) % (MaxGenerator + 1)
                                         ELSE state]

\* lines 371-373: `if n > 0 and len(df_f) > n: df_f = df_f.sample(n, random_state=42)`.
\* random_state=42 makes sample build its own RandomState(42) on every call:
\* the rows are the first n of its permutation, whatever the state of the
\* global generator, which is left as it was
Sample(df_f, n, state) ==
    [rows |-> IF n > 0 /\ Len(df_f) > n
              THEN [i \in 1..n |-> df_f[Permutation42[Len(df_f)][i] + 1]]
              ELSE df_f,
     state |-> state]

IsDigit(c) == \E j \in 1..Len(Digits) : Digits[j] = c

\* The digits and point of a float literal: digits with at most one ".",
\* one digit at least ("4.5", "1.", ".5", not ".")
Mantissa(s) ==
    LET points == {i \in 1..Len(s) : s[i] = "."}
    IN  /\ Cardinality(points) <= 1
        /\ Len(s) > Cardinality(points)
        /\ \A i \in (1..Len(s)) \ points : IsDigit(s[i])

\* float(s) of a str converts (the alphabet has no sign and no underscore):
\* blanks around are dropped, then, in any case, "nan", "inf", "infinity",
\* or a mantissa with an optional exponent "e" and digits
FloatText(s) ==
    LET t == Lower(Strip(s))
        es == {i \in 1..Len(t) : t[i] = "e"}
    IN  \/ t \in {<<"n", "a", "n">>, <<"i", "n", "f">>,
                  <<"i", "n", "f", "i", "n", "i", "t", "y">>}
        \/ es = {} /\ Mantissa(t)
        \/ /\ Cardinality(es) = 1
           /\ LET i == CHOOSE i \in es : TRUE
              IN  /\ Mantissa(SubSeq(t, 1, i - 1))
                  /\ i < Len(t)
                  /\ \A j \in (i + 1)..Len(t) : IsDigit(t[j])

\* float(x) succeeds: on a number (NaN included) and on a str that reads as
\* a float; None raises TypeError, any other str ValueError
FloatConverts(v) ==
    \/ IsNumber(v)
    \/ v.k = "str" /\ FloatText(v.s)

\* float(x) is NaN: the missing value, or a str that reads "nan"
FloatIsNaN(v) ==
    \/ v.k = "nan"
    \/ v.k = "str" /\ Lower(Strip(v.s)) = <<"n", "a", "n">>

\* folium.Marker([lat, lon]) takes the location: both coordinates convert to
\* a float and neither is NaN (folium raises ValueError otherwise)
MarkerAccepts(lat, lon) ==
    /\ FloatConverts(lat) /\ ~FloatIsNaN(lat)
    /\ FloatConverts(lon) /\ ~FloatIsNaN(lon)

\* f"${x:,.0f}" formats x: a number does, a str or None raises
PriceFormats(v) == IsNumber(v)

LabelColumns == {"Address", "City", "State", "Zip Code", "Price", "Beds", "Baths",
                 "Living Space", "Latitude", "Longitude"}

\* f"{n:,}" of a non-negative integer
RECURSIVE Commas(_)
Commas(n) == IF n < 1000 THEN Dec(n)
             ELSE Commas(n \div 1000) \o <<",">> \o Pad3(n % 1000)

\* f"${x:,.0f}" of a number: NaN formats as "nan"
PriceText(v) == <<"$">> \o (IF HasValue(v) THEN Commas(v.n) ELSE <<"n", "a", "n">>)

\* The columns the popup text is built from
PopupColumns == {"Address", "City", "State", "Zip Code", "Price", "Beds", "Baths",
                 "Living Space"}

\* The popup text of generate_map raises: row[...] of an absent column
\* (KeyError) or fmt_price of a price that is no number
LabelRaises(d, r) ==
    \/ \E c \in PopupColumns : ~HasColumn(d, c)
    \/ ~PriceFormats(d.rows[r + 1]["Price"])

\* The popup text of generate_map, field by field, when it does not raise
html(d, r) ==
    [c \in PopupColumns |->
        IF c = "Price" THEN PriceText(d.rows[r + 1][c]) ELSE PyStr(d.rows[r + 1][c])]

\* One pass of the loop of generate_map raises: in the popup text, on
\* row['Latitude'] or row['Longitude'] of an absent column, or on a location
\* folium refuses
MarkerRaises(d, r) ==
    \/ LabelRaises(d, r)
    \/ \E c \in LabelColumns : ~HasColumn(d, c)
    \/ ~MarkerAccepts(d.rows[r + 1]["Latitude"], d.rows[r + 1]["Longitude"])

\* generate_map with n in sample_spin: the sampled visible rows become
\* markers; an exception in the loop leaves the handler before the map is
\* saved.  MainWindow puts a plain QWidget in its "Cartographie" tab (the
\* __init__ and open_csv that Python keeps are the second ones, lines
\* 439-470), so the handler runs only where a CartographyTab was built.
generate_map(n) ==
    /\ app = "CartographyTab"
    /\ LET sampled == Sample(_filtered_dataframe, n, np_random)
           df_f == sampled.rows
           raised == \E i \in 1..Len(df_f) : MarkerRaises(df, df_f[i])
       IN  /\ last' = [DidMap("generate_map", df_f, n, raised,
                              IF raised THEN NoMap ELSE MapOf(df_f))
                          EXCEPT !.prev = IF last.op = "generate_map" /\ last.n = n
                                          THEN <<last.rows>> ELSE <<>>]
           /\ np_random' = sampled.state
    /\ UNCHANGED <<app, df, widgets, proxy, sortState, visible, dyn, web>>

(***************************************************************************)
(* CartographyDynamic (src/cartographie.py).                               *)
(***************************************************************************)
DynSpinNames == {"min_price", "max_price", "min_beds", "max_beds"}
DynTextNames == {"city", "state"}

DynDefaults ==
    [w \in DynSpinNames \cup DynTextNames |->
        IF w \in DynSpinNames THEN IntCell(0) ELSE Text(<<>>)]

DynSpinValues(w) ==
    CASE w = "min_price"                -> {0, 100000}
      [] w = "max_price"                -> {0, 100000, 250000}
      [] w \in {"min_beds", "max_beds"} -> {0, 3}

DynActiveCount(w) == Cardinality({x \in DOMAIN w : w[x] # DynDefaults[x]})

\* What filtered_df has so far: the rows left, or the exception raised
Frame(rows) == [raised |-> FALSE, rows |-> rows]
Raised == [raised |-> TRUE, rows |-> <<>>]

\* `if bound: df = df[df[col] >= bound]` (lower) or `<= bound` (upper).
\* df[col] raises KeyError without the column; comparing a str with the
\* bound raises TypeError; NaN and None compare False.
RangeStep(d, f, bound, col, lower) ==
    IF f.raised \/ bound = None THEN f
    ELSE IF ~HasColumn(d, col) THEN Raised
    ELSE IF \E i \in 1..Len(f.rows) : d.rows[f.rows[i] + 1][col].k = "str" THEN Raised
    ELSE Frame(SelectRows(f.rows,
                 {r \in AllRows(d) :
                     LET v == d.rows[r + 1][col]
                     IN  HasValue(v) /\ IF lower THEN v.n >= bound[1]
                                                 ELSE v.n <= bound[1]}))

\* re.search(pattern, hay) for a pattern over the alphabet, where the one
\* special character is ".", which stands for any character
Search(pattern, hay) ==
    \E i \in 0..(Len(hay) - Len(pattern)) :
        \A j \in 1..Len(pattern) : pattern[j] = "." \/ hay[i + j] = pattern[j]

\* `if city: df = df[df["City"].astype(str).str.contains(city, case=False, na=False)]`:
\* str.contains takes city as a regular expression (regex=True), case ignored
CityStep(d, f, city) ==
    IF f.raised \/ city = <<>> THEN f
    ELSE IF ~HasColumn(d, "City") THEN Raised
    ELSE Frame(SelectRows(f.rows,
                 {r \in AllRows(d) :
                     Search(Lower(city), Lower(PyStr(d.rows[r + 1]["City"])))}))

\* `if state: df = df[df["State"] == state]`
StateStep(d, f, state) ==
    IF f.raised \/ state = <<>> THEN f
    ELSE Frame(SelectRows(f.rows,
                 {r \in AllRows(d) :
                     LET v == d.rows[r + 1]["State"]
                     IN  v.k = "str" /\ v.s = state}))

filtered_df(d, w) ==
    LET min_price == OrNone(w["min_price"].n)
        max_price == OrNone(w["max_price"].n)
        min_beds  == OrNone(w["min_beds"].n)
        max_beds  == OrNone(w["max_beds"].n)
        city      == Strip(w["city"].s)
        state     == Strip(w["state"].s)
        f0 == Frame(Upto(rowCount(d)))
        f1 == RangeStep(d, f0, min_price, "Price", TRUE)
        f2 == RangeStep(d, f1, max_price, "Price", FALSE)
        f3 == RangeStep(d, f2, min_beds, "Beds", TRUE)
        f4 == RangeStep(d, f3, max_beds, "Beds", FALSE)
        f5 == CityStep(d, f4, city)
    IN  StateStep(d, f5, state)

\* df_f.head(3000)
MarkerCeiling == 3000

\* fmt_price of cartographie.py: f"${x:,.0f}", and "$0" when that raises
fmt_price(v) == IF PriceFormats(v) THEN PriceText(v) ELSE <<"$", "0">>

\* row.get(col, default): the cell, or the default without the column
row_get(d, r, col, default) == IF HasColumn(d, col) THEN d.rows[r + 1][col] ELSE default

\* The popup text of update_map, field by field
popup(d, r) ==
    [c \in PopupColumns |->
        CASE c = "Price" -> fmt_price(row_get(d, r, c, IntCell(0)))
          [] c \in {"Beds", "Baths", "Living Space"} ->
                PyStr(row_get(d, r, c, Text(<<"?">>)))
          [] OTHER -> PyStr(row_get(d, r, c, Text(<<>>)))]

\* The loop of update_map over one row: float() of a coordinate that does
\* not convert skips the row; a NaN coordinate reaches folium.Marker, which
\* raises
DynSkips(d, r) ==
    \/ ~FloatConverts(d.rows[r + 1]["Latitude"])
    \/ ~FloatConverts(d.rows[r + 1]["Longitude"])
DynRaises(d, r) ==
    /\ ~DynSkips(d, r)
    /\ FloatIsNaN(d.rows[r + 1]["Latitude"]) \/ FloatIsNaN(d.rows[r + 1]["Longitude"])

\* df_f.head(3000): the first MarkerCeiling rows
Head3000(rows) ==
    SubSeq(rows, 1, IF Len(rows) < MarkerCeiling THEN Len(rows) ELSE MarkerCeiling)

\* update_map: the map of the filtered rows replaces the one shown; any
\* exception is caught at the end, printed, and the view keeps its map.
update_map_result(d, w, shown) ==
    LET f == filtered_df(d, w)
        head == Head3000(f.rows)
    IN  IF f.raised THEN shown
        ELSE IF f.rows = <<>> \/ ~HasColumn(d, "Latitude") \/ ~HasColumn(d, "Longitude")
             THEN MapOf(<<>>)
        ELSE IF \E i \in 1..Len(head) : DynRaises(d, head[i]) THEN shown
        ELSE MapOf(SelectRows(head, {r \in AllRows(d) : ~DynSkips(d, r)}))

update_map ==
    /\ web' = update_map_result(df, dyn', web)
    /\ LET f == filtered_df(df, dyn')
           raised ==
               \/ f.raised
               \/ /\ f.rows # <<>>
                  /\ HasColumn(df, "Latitude") /\ HasColumn(df, "Longitude")
                  /\ \E i \in 1..Len(Head3000(f.rows)) : DynRaises(df, Head3000(f.rows)[i])
       IN  last' = DidMap("update_map", f.rows, 0, raised,
                          IF raised THEN NoMap ELSE web')
    /\ UNCHANGED <<app, np_random, df, widgets, proxy, sortState, visible>>

DynSpinChanged(w, x) ==
    /\ app = "cartographie"
    /\ dyn[w].n # x
    /\ dyn' = [dyn EXCEPT ![w] = IntCell(x)]
    /\ DynActiveCount(dyn') <= MaxActive
    /\ update_map

DynTextChanged(w, t) ==
    /\ app = "cartographie"
    /\ dyn[w].s # t
    /\ dyn' = [dyn EXCEPT ![w] = Text(t)]
    /\ DynActiveCount(dyn') <= MaxActive
    /\ update_map

(***************************************************************************)
(* The programs.                                                           *)
(***************************************************************************)
\* The table of a new ExplorationTab(d): no filter is set and
\* setSortingEnabled(True) has sorted the rows by column 0, descending
NewTable(d) ==
    sort_source_rows(d, InitialSort,
        SelectRows(Upto(rowCount(d)),
                   {r \in AllRows(d) : filterAcceptsRow(d, ProxyDefaults, r)}))

\* MainWindow(df) of exploration.py: the tabs are built, no filter is set
InitExploration ==
    /\ app = "exploration"
    /\ np_random = 0
    /\ df \in DataFrames
    /\ widgets = WidgetDefaults
    /\ proxy = ProxyDefaults
    /\ sortState = InitialSort
    /\ visible = NewTable(df)
    /\ dyn = DynDefaults
    /\ web = NoMap
    /\ last = Did("__init__", <<>>, 0, FALSE)

\* ExplorationTab(df) and CartographyTab(tab.proxy, tab.model): the tab with
\* the "Generer la carte" button, built on the proxy and model of an
\* ExplorationTab as its constructor asks
InitCartographyTab ==
    /\ app = "CartographyTab"
    /\ np_random \in GeneratorStates
    /\ df \in DataFrames
    /\ widgets = WidgetDefaults
    /\ proxy = ProxyDefaults
    /\ sortState = InitialSort
    /\ visible = NewTable(df)
    /\ dyn = DynDefaults
    /\ web = NoMap
    /\ last = Did("__init__", <<>>, 0, FALSE)

\* What a CSV opened from the menu reads as: the frames above, or one with
\* no State column
NoStateColumns ==
    << "Price", "City", "Beds", "Zip Code", "Baths", "Living Space",
       "Address", "Median Household Income", "Latitude", "Longitude" >>

CsvFrames == DataFrames \cup {Window(NoStateColumns, 1, MaxRows)}

\* The window holds no table
NoFrame == [cols |-> <<>>, rows |-> <<>>]

\* MainWindow.open_csv with a CSV that reads as df_new (no path chosen, or
\* a file read_csv fails on, changes nothing).  setCentralWidget(None)
\* drops the old tabs first; then a new ExplorationTab(df_new) replaces
\* them, with its own widgets, proxy and sort.  Without a State column
\* ExplorationTab raises KeyError at df["State"] (line 249), the except
\* shows the message, and the window is left with no central widget.
open_csv(df_new) ==
    /\ app \in {"exploration", "MainWindow"}
    /\ widgets' = WidgetDefaults
    /\ proxy' = ProxyDefaults
    /\ sortState' = InitialSort
    /\ IF HasColumn(df_new, "State")
       THEN /\ app' = "exploration"
            /\ df' = df_new
            /\ visible' = NewTable(df_new)
            /\ last' = Did("open_csv", <<>>, 0, FALSE)
       ELSE /\ app' = "MainWindow"
            /\ df' = NoFrame
            /\ visible' = <<>>
            /\ last' = Did("open_csv", <<>>, 0, TRUE)
    /\ UNCHANGED <<np_random, dyn, web>>

\* CartographyDynamic(df) of cartographie.py: __init__ ends with update_map()
InitCartographie ==
    /\ app = "cartographie"
    /\ np_random = 0
    /\ df \in DataFrames
    /\ widgets = WidgetDefaults
    /\ proxy = ProxyDefaults
    /\ sortState = InitialSort
    /\ visible = <<>>
    /\ dyn = DynDefaults
    /\ web = update_map_result(df, DynDefaults, NoMap)
    /\ last = Did("__init__", <<>>, 0, FALSE)

Init == InitExploration \/ InitCartographyTab \/ InitCartographie

Next ==
    \/ \E w \in SpinNames : \E x \in SpinValues(w) : SpinChanged(w, x)
    \/ \E w \in {"city", "search"} : \E t \in LineTexts(w) : TextChanged(w, t)
    \/ \E t \in ComboItems(df) : TextChanged("state", t)
    \/ _reset_filters
    \/ \E column \in 0..(MaxSortCol - 1) : HeaderClicked(column)
    \/ export_csv
    \/ \E df_new \in CsvFrames : open_csv(df_new)
    \/ \E n \in SampleSizes : generate_map(n)
    \/ \E w \in DynSpinNames : \E x \in DynSpinValues(w) : DynSpinChanged(w, x)
    \/ \E t \in LineTexts("city") : DynTextChanged("city", t)
    \/ \E t \in ComboItems(df) : DynTextChanged("state", t)

Spec == Init /\ [][Next]_vars

(***************************************************************************)
(* Properties.                                                             *)
(***************************************************************************)
\* No row comes twice in seq
Distinct(seq) == Cardinality(RowSet(seq)) = Len(seq)

\* seq is in the order of the sort st: no row must precede the one before it
InSortOrder(d, st, seq) ==
    \A i \in 1..(Len(seq) - 1) : ~Before(d, st, seq[i + 1], seq[i])

\* seq is in the DataFrame's row order
InRowOrder(seq) == \A i \in 1..(Len(seq) - 1) : seq[i] < seq[i + 1]

\* The rows the proxy's filter accepts
Accepted(d, p) == {r \in AllRows(d) : filterAcceptsRow(d, p, r)}

\* C1: after any sequence of filter changes, sorts and resets the visible
\* rows are rows of the DataFrame, none twice, and each is accepted by
\* every predicate of the proxy evaluated on that row alone.
C1_VisibleRowsValid ==
    HasExplorationTab =>
        /\ RowSet(visible) \subseteq AllRows(df)
        /\ Distinct(visible)
        /\ \A i \in 1..Len(visible) :
            LET r == visible[i] IN
            /\ ~RangeRejects(val(df, r, "Price"), proxy.min_price, proxy.max_price)
            /\ ~RangeRejects(val(df, r, "Living Space"), proxy.min_space, proxy.max_space)
            /\ ~RangeRejects(val(df, r, "Beds"), proxy.min_beds, proxy.max_beds)
            /\ ~RangeRejects(val(df, r, "Median Household Income"),
                             proxy.min_income, proxy.max_income)
            /\ ~SubstringRejects(val(df, r, "City"), proxy.city_substr)
            /\ ~ExactRejects(val(df, r, "State"), proxy.state_exact)
            /\ ~SubstringRejects(val(df, r, "Address"), proxy.search_text)

\* A filter change on a re-sorted table has hidden some rows and left others
C1_Witness ==
    /\ last.op = "changed"
    /\ sortState # InitialSort
    /\ visible # <<>>
    /\ Len(visible) < rowCount(df)

\* C2: no stale row set is read.  In the table the proxy's fields are those
\* of the widgets and the visible rows are the rows accepted under them, so
\* what export_csv and generate_map read right after any change is the row
\* set of the latest filter; the rows update_map reads are those of the
\* widgets of CartographyDynamic as they are now.
C2_ReadsAreFresh ==
    /\ HasExplorationTab =>
        /\ proxy = ProxyFromWidgets(widgets)
        /\ RowSet(visible) = Accepted(df, ProxyFromWidgets(widgets))
        /\ last.op = "export_csv" => last.rows = visible
        /\ last.op = "generate_map" =>
            /\ RowSet(last.rows) \subseteq Accepted(df, ProxyFromWidgets(widgets))
            /\ Len(last.rows) = Len(visible) => last.rows = visible
    /\ app = "cartographie" /\ last.op = "update_map" /\ ~filtered_df(df, dyn).raised =>
        /\ last.rows = filtered_df(df, dyn).rows
        /\ ~last.raised => web.shown /\ RowSet(web.markers) \subseteq RowSet(last.rows)

\* An export reads the table while a filter hides some rows
C2_Witness ==
    /\ last.op = "export_csv"
    /\ widgets # WidgetDefaults
    /\ last.rows # <<>>
    /\ Len(last.rows) < rowCount(df)

\* The range test of the claim on a cell with a numeric value
InRange(v, lo, hi) == (lo = None \/ v.n >= lo[1]) /\ (hi = None \/ v.n <= hi[1])

\* C3 as stated: the range predicate is inclusive on both sides, and the
\* accepted rows are in their original relative order.
C3_OriginalOrderKept ==
    HasExplorationTab =>
        /\ \A r \in AllRows(df) :
            HasValue(val(df, r, "Price")) =>
                (RangeRejects(val(df, r, "Price"), proxy.min_price, proxy.max_price)
                    <=> ~InRange(val(df, r, "Price"), proxy.min_price, proxy.max_price))
        /\ InRowOrder(visible)

\* C3, amended: the range predicate on Price, Living Space, Beds and Median
\* Household Income accepts a numeric value iff it lies within the bounds
\* that are set, both inclusive; filtered_df returns the accepted rows in
\* their original relative order, and the table shows exactly the accepted
\* rows, in the order of its sort.
C3_RangeInclusive ==
    /\ HasExplorationTab =>
        /\ \A r \in AllRows(df) :
            /\ HasValue(val(df, r, "Price")) =>
                (RangeRejects(val(df, r, "Price"), proxy.min_price, proxy.max_price)
                    <=> ~InRange(val(df, r, "Price"), proxy.min_price, proxy.max_price))
            /\ HasValue(val(df, r, "Living Space")) =>
                (RangeRejects(val(df, r, "Living Space"), proxy.min_space, proxy.max_space)
                    <=> ~InRange(val(df, r, "Living Space"), proxy.min_space, proxy.max_space))
            /\ HasValue(val(df, r, "Beds")) =>
                (RangeRejects(val(df, r, "Beds"), proxy.min_beds, proxy.max_beds)
                    <=> ~InRange(val(df, r, "Beds"), proxy.min_beds, proxy.max_beds))
            /\ HasValue(val(df, r, "Median Household Income")) =>
                (RangeRejects(val(df, r, "Median Household Income"),
                              proxy.min_income, proxy.max_income)
                    <=> ~InRange(val(df, r, "Median Household Income"),
                                 proxy.min_income, proxy.max_income))
        /\ RowSet(visible) = Accepted(df, proxy)
        /\ Distinct(visible)
        /\ InSortOrder(df, sortState, visible)
    /\ app = "cartographie" /\ ~filtered_df(df, dyn).raised =>
        LET rows == filtered_df(df, dyn).rows
            lo_price == OrNone(dyn["min_price"].n)
            hi_price == OrNone(dyn["max_price"].n)
            lo_beds  == OrNone(dyn["min_beds"].n)
            hi_beds  == OrNone(dyn["max_beds"].n)
        IN  /\ InRowOrder(rows)
            /\ \A r \in AllRows(df) :
                /\ r \in RowSet(rows) /\ HasColumn(df, "Price")
                     /\ HasValue(val(df, r, "Price"))
                     => InRange(val(df, r, "Price"), lo_price, hi_price)
                /\ r \in RowSet(rows) /\ HasValue(val(df, r, "Beds"))
                     => InRange(val(df, r, "Beds"), lo_beds, hi_beds)
                /\ /\ HasColumn(df, "Price") /\ HasValue(val(df, r, "Price"))
                   /\ InRange(val(df, r, "Price"), lo_price, hi_price)
                   /\ HasValue(val(df, r, "Beds"))
                   /\ InRange(val(df, r, "Beds"), lo_beds, hi_beds)
                   /\ dyn["city"].s = <<>> /\ dyn["state"].s = <<>>
                   => r \in RowSet(rows)

\* Both price bounds are set; a price on the lower bound and one on the upper
\* bound are visible, a price outside is hidden
C3_Witness ==
    /\ HasExplorationTab
    /\ proxy.min_price # None /\ proxy.max_price # None
    /\ \E i, j \in 1..Len(visible) :
        /\ val(df, visible[i], "Price").n = proxy.min_price[1]
        /\ val(df, visible[j], "Price").n = proxy.max_price[1]
        /\ HasValue(val(df, visible[i], "Price"))
        /\ HasValue(val(df, visible[j], "Price"))
        /\ proxy.min_price[1] < proxy.max_price[1]
    /\ \E r \in AllRows(df) :
        /\ HasValue(val(df, r, "Price"))
        /\ r \notin RowSet(visible)

\* The value of a row in a column is absent, missing or not a number
FailsOpen(d, r, col) == ~HasColumn(d, col) \/ ~HasValue(d.rows[r + 1][col])

\* C4: numeric predicates fail open.  In the table a row whose value is
\* absent, missing or not a number is not rejected by that column's range
\* predicate; in the dynamic map, with only that column's bounds set,
\* filtered_df raises nothing and keeps every such row.
C4_FailOpenInBothFilters ==
    /\ HasExplorationTab =>
        \A r \in AllRows(df) :
            /\ FailsOpen(df, r, "Price") =>
                ~RangeRejects(val(df, r, "Price"), proxy.min_price, proxy.max_price)
            /\ FailsOpen(df, r, "Living Space") =>
                ~RangeRejects(val(df, r, "Living Space"), proxy.min_space, proxy.max_space)
            /\ FailsOpen(df, r, "Beds") =>
                ~RangeRejects(val(df, r, "Beds"), proxy.min_beds, proxy.max_beds)
            /\ FailsOpen(df, r, "Median Household Income") =>
                ~RangeRejects(val(df, r, "Median Household Income"),
                              proxy.min_income, proxy.max_income)
    /\ app = "cartographie" =>
        /\ dyn["min_beds"].n = 0 /\ dyn["max_beds"].n = 0
             /\ dyn["city"].s = <<>> /\ dyn["state"].s = <<>> =>
            /\ ~filtered_df(df, dyn).raised
            /\ \A r \in AllRows(df) :
                FailsOpen(df, r, "Price") => r \in RowSet(filtered_df(df, dyn).rows)
        /\ dyn["min_price"].n = 0 /\ dyn["max_price"].n = 0
             /\ dyn["city"].s = <<>> /\ dyn["state"].s = <<>> =>
            /\ ~filtered_df(df, dyn).raised
            /\ \A r \in AllRows(df) :
                FailsOpen(df, r, "Beds") => r \in RowSet(filtered_df(df, dyn).rows)

\* The string the claim gives a cell: empty for an absent column or a
\* missing value, else the stringified value
SpecString(d, r, col) ==
    IF ~HasColumn(d, col) \/ d.rows[r + 1][col].k \in {"nan", "none"}
    THEN <<>>
    ELSE PyStr(d.rows[r + 1][col])

\* C5: the substring predicate on City and Address accepts a row iff the
\* needle is empty or is contained, case-insensitively, in the stringified
\* value, an absent column or a missing value counting as the empty string.
C5_SubstringOfStringifiedValue ==
    HasExplorationTab =>
        \A r \in AllRows(df) :
            /\ ~SubstringRejects(val(df, r, "City"), proxy.city_substr)
                 <=> \/ proxy.city_substr = <<>>
                     \/ Contains(Lower(proxy.city_substr),
                                 Lower(SpecString(df, r, "City")))
            /\ ~SubstringRejects(val(df, r, "Address"), proxy.search_text)
                 <=> \/ proxy.search_text = <<>>
                     \/ Contains(Lower(proxy.search_text),
                                 Lower(SpecString(df, r, "Address")))

\* The predicates of the claim, on the widgets' values: a bound of 0 and an
\* empty text are unset
BoundAccepts(v, lo, hi) ==
    HasValue(v) => (lo = 0 \/ v.n >= lo) /\ (hi = 0 \/ v.n <= hi)
NeedleAccepts(v, needle) ==
    needle = <<>> \/ Contains(Lower(needle), Lower(StrOrEmpty(v)))
LiteralAccepts(v, literal) ==
    literal = <<>> \/ StrOrEmpty(v) = literal

\* C6: a row is visible iff every active predicate accepts it; a numeric
\* bound is inactive exactly when its spin box is at 0, a text predicate
\* exactly when its (stripped) text is empty; a visible row under an active
\* State predicate has a stringified State equal to the literal.
C6_VisibleIffAllActiveAccept ==
    HasExplorationTab =>
        \A r \in AllRows(df) :
            /\ r \in RowSet(visible) <=>
                /\ BoundAccepts(val(df, r, "Price"),
                                widgets["min_price"].n, widgets["max_price"].n)
                /\ BoundAccepts(val(df, r, "Living Space"),
                                widgets["min_space"].n, widgets["max_space"].n)
                /\ BoundAccepts(val(df, r, "Beds"),
                                widgets["min_beds"].n, widgets["max_beds"].n)
                /\ BoundAccepts(val(df, r, "Median Household Income"),
                                widgets["min_income"].n, widgets["max_income"].n)
                /\ NeedleAccepts(val(df, r, "City"), Strip(widgets["city"].s))
                /\ LiteralAccepts(val(df, r, "State"), Strip(widgets["state"].s))
                /\ NeedleAccepts(val(df, r, "Address"), Strip(widgets["search"].s))
            /\ r \in RowSet(visible) /\ Strip(widgets["state"].s) # <<>> =>
                PyStr(val(df, r, "State")) = Strip(widgets["state"].s)

\* Two predicates are active, one of them the State predicate; some rows
\* are visible and some are hidden
C6_Witness ==
    /\ HasExplorationTab
    /\ ActiveCount(widgets) = MaxActive
    /\ widgets["state"].s # <<>>
    /\ visible # <<>>
    /\ Len(visible) < rowCount(df)
    /\ \E r \in AllRows(df) :
        /\ r \notin RowSet(visible)
        /\ LiteralAccepts(val(df, r, "State"), widgets["state"].s)

\* C7 as stated: a reset leaves all rows visible in the DataFrame's order.
C7_ResetRestoresRowOrder ==
    last.op = "_reset_filters" => visible = Upto(rowCount(df))

\* C7, amended: from any reachable state a reset leaves every row of the
\* DataFrame visible, once each, in the order of the table's sort (the rows
\* stay sorted by the column and order last chosen, which from the start is
\* column 0, descending).
C7_ResetShowsAllRowsSorted ==
    last.op = "_reset_filters" =>
        /\ RowSet(visible) = AllRows(df)
        /\ Len(visible) = rowCount(df)
        /\ InSortOrder(df, sortState, visible)

\* A reset has run on a table sorted through its header; all rows are back
\* and they are not in the DataFrame's order
C7_Witness ==
    /\ last.op = "_reset_filters"
    /\ sortState # InitialSort
    /\ Len(visible) = rowCount(df)
    /\ visible # Upto(rowCount(df))

\* The place of row r in seq
Place(seq, r) == CHOOSE i \in 1..Len(seq) : seq[i] = r

\* C8: a sort only reorders the visible rows: the same rows are visible, the
\* DataFrame is unchanged, and rows with equal sort keys keep the relative
\* order they had before the sort.
C8_SortOnlyReorders ==
    [][last'.op = "sort" =>
        /\ df' = df
        /\ RowSet(visible') = RowSet(visible)
        /\ Len(visible') = Len(visible)
        /\ \A i, j \in 1..Len(visible) :
            /\ i < j
            /\ data(df, visible[i], sortState'.column)
                 = data(df, visible[j], sortState'.column)
            => Place(visible', visible[i]) < Place(visible', visible[j])
      ]_vars

\* A sort has run over rows of which two have the same key and a third has
\* another, and the two are not in the DataFrame's order
C8_Witness ==
    /\ last.op = "sort"
    /\ \E i, j, k \in 1..Len(visible) :
        /\ i < j
        /\ visible[i] > visible[j]
        /\ data(df, visible[i], sortState.column) = data(df, visible[j], sortState.column)
        /\ data(df, visible[k], sortState.column) # data(df, visible[i], sortState.column)

\* C9: after a sort by the numeric column Price the table shows the rows
\* with a price in numeric order (ascending or descending as chosen) and the
\* rows with a missing or non-numeric price last.
C9_NumericColumnSortsByValue ==
    last.op = "sort" /\ HasColumn(df, "Price")
        /\ df.cols[sortState.column + 1] = "Price" =>
        \A i, j \in 1..Len(visible) :
            i < j =>
                LET a == val(df, visible[i], "Price")
                    b == val(df, visible[j], "Price")
                IN  /\ HasValue(b) => HasValue(a)
                    /\ HasValue(a) /\ HasValue(b) =>
                        IF sortState.order = Ascending THEN a.n <= b.n ELSE a.n >= b.n

\* C10: generate_map with n > 0 and more than n visible rows selects exactly
\* n distinct visible rows; with n = 0 or at most n visible rows it selects
\* every visible row.  The selection is deterministic: a second generate_map
\* over the same visible rows with the same n selects the rows the first one
\* did, and from any state of numpy's global generator the same rows are
\* selected, the generator being left as the process started it.
C10_SampleSelection ==
    last.op = "generate_map" =>
        /\ IF last.n > 0 /\ Len(visible) > last.n
           THEN /\ Len(last.rows) = last.n
                /\ Distinct(last.rows)
                /\ RowSet(last.rows) \subseteq RowSet(visible)
           ELSE last.rows = visible
        /\ last.prev # <<>> => last.rows = last.prev[1]
        /\ \A state \in GeneratorStates :
               Sample(_filtered_dataframe, last.n, state).rows = last.rows

\* A map was generated twice in a row from more visible rows than the sample
\* size, in a process whose global generator did not start in state 0
C10_Witness ==
    /\ last.op = "generate_map"
    /\ last.n > 1
    /\ Len(visible) > last.n
    /\ last.prev # <<>>
    /\ np_random > 0

\* A coordinate a marker can be placed at: it parses to a float, not NaN
ValidCoordinate(v) == FloatConverts(v) /\ ~FloatIsNaN(v)

\* The rows of seq with a valid Latitude / Longitude pair, in seq's order
WithCoordinates(d, seq) ==
    SelectRows(seq, {r \in AllRows(d) :
                        /\ ValidCoordinate(d.rows[r + 1]["Latitude"])
                        /\ ValidCoordinate(d.rows[r + 1]["Longitude"])})

\* C11: in both render paths, when the rows to render have Latitude and
\* Longitude columns and nothing else fails (filter and popup text), the
\* render raises nothing and the saved map has one marker for each row with
\* a valid coordinate pair, the other rows being left out; the rows
\* generate_map renders are still visible rows of the table.
C11_BadCoordinatesAreSkipped ==
    /\ HasColumn(df, "Latitude") /\ HasColumn(df, "Longitude") =>
        /\ (/\ last.op = "generate_map"
            /\ \A i \in 1..Len(last.rows) : ~LabelRaises(df, last.rows[i]))
               => /\ ~last.raised
                  /\ last.map = MapOf(WithCoordinates(df, last.rows))
                  /\ RowSet(last.rows) \subseteq RowSet(visible)
        /\ (/\ last.op = "update_map"
            /\ ~filtered_df(df, dyn).raised)
               => /\ ~last.raised
                  /\ last.map = MapOf(WithCoordinates(df, Head3000(last.rows)))
                  /\ web = last.map

\* There is nothing to place on a map of the rows seq of d
NothingToRender(d, seq) ==
    seq = <<>> \/ ~HasColumn(d, "Latitude") \/ ~HasColumn(d, "Longitude")

\* C12: a render over no visible row, or over a DataFrame without a
\* Latitude or a Longitude column, raises nothing and saves a map with no
\* marker at the default location (39.5, -98.35); update_map shows it.
C12_EmptyMapWhenNothingToRender ==
    /\ (last.op = "generate_map" /\ NothingToRender(df, last.rows))
           => /\ ~last.raised
              /\ last.map = [shown |-> TRUE, markers |-> <<>>, location |-> <<3950, -9835>>]
    /\ (/\ last.op = "update_map"
        /\ ~filtered_df(df, dyn).raised
        /\ NothingToRender(df, last.rows))
           => /\ ~last.raised
              /\ last.map = [shown |-> TRUE, markers |-> <<>>, location |-> <<3950, -9835>>]
              /\ web = last.map

\* C13: export_csv writes exactly the records of the visible rows, one per
\* visible row and in the table's order: the rows the filter accepts, none
\* twice, in the order of the active sort; under a descending sort of Price
\* the exported prices read, top to bottom, as the table's Price column.
C13_ExportIsVisibleInOrder ==
    last.op = "export_csv" =>
        /\ Len(last.rows) = Len(visible)
        /\ \A i \in 1..Len(visible) : last.rows[i] = visible[i]
        /\ iloc(df, last.rows) = [i \in 1..Len(visible) |-> df.rows[visible[i] + 1]]
        /\ Distinct(last.rows)
        /\ RowSet(last.rows) = Accepted(df, proxy)
        /\ InSortOrder(df, sortState, last.rows)
        /\ (/\ df.cols[sortState.column + 1] = "Price"
            /\ sortState.order = Descending)
               => \A i \in 1..Len(visible) :
                      /\ iloc(df, last.rows)[i]["Price"] = val(df, visible[i], "Price")
                      /\ i < Len(visible) =>
                            ~StrLess(data(df, last.rows[i], sortState.column),
                                     data(df, last.rows[i + 1], sortState.column))

\* A filtered table sorted by Price descending, whose order is not the
\* DataFrame's, was exported
C13_Witness ==
    /\ last.op = "export_csv"
    /\ df.cols[sortState.column + 1] = "Price" /\ sortState.order = Descending
    /\ Len(visible) = 2 /\ rowCount(df) = 3
    /\ ~InRowOrder(visible)
    /\ last.rows = visible

\* The text a popup shows for a field that is absent
Placeholder(c) ==
    CASE c = "Price" -> <<"$", "0">>
      [] c \in {"Beds", "Baths", "Living Space"} -> <<"?">>
      [] OTHER -> <<>>

\* C14: building the popup text of a marker never raises.  When every
\* rendered row has a place on the map, generate_map raises nothing and
\* saves a marker for each row; update_map fails only in its filter or on a
\* coordinate; and in the text of a marker a field whose column is absent
\* is its placeholder, a Price that is absent or is no number is "$0".
C14_LabelNeverRaises ==
    /\ (/\ last.op = "generate_map"
        /\ HasColumn(df, "Latitude") /\ HasColumn(df, "Longitude")
        /\ WithCoordinates(df, last.rows) = last.rows)
           => /\ ~last.raised
              /\ last.map = MapOf(last.rows)
    /\ (last.op = "update_map" /\ last.raised)
           => \/ filtered_df(df, dyn).raised
              \/ \E i \in 1..Len(Head3000(last.rows)) :
                     DynRaises(df, Head3000(last.rows)[i])
    /\ \A i \in 1..Len(web.markers) : \A c \in PopupColumns :
           (\/ ~HasColumn(df, c)
            \/ c = "Price" /\ ~IsNumber(df.rows[web.markers[i] + 1][c]))
               => popup(df, web.markers[i])[c] = Placeholder(c)
    /\ \A i \in 1..Len(last.map.markers) : \A c \in PopupColumns :
           last.op = "generate_map" /\ c # "Price" =>
               html(df, last.map.markers[i])[c] = PyStr(df.rows[last.map.markers[i] + 1][c])

\* The proxy fields _on_filters_changed sets from the widgets w of
\* CartographyDynamic, the filters it has no widget for staying unset
SameSettings(w) ==
    ProxyFromWidgets([x \in DOMAIN WidgetDefaults |->
                         IF x \in DOMAIN w THEN w[x] ELSE WidgetDefaults[x]])

\* C15: for every DataFrame and every setting of min/max Price, min/max
\* Beds, City and State, filtered_df raises nothing and selects exactly the
\* rows filterAcceptsRow accepts under the same settings, in row order.
C15_FilterEnginesAgree ==
    app = "cartographie" =>
        LET f == filtered_df(df, dyn)
        IN  /\ ~f.raised
            /\ f.rows = SelectRows(Upto(rowCount(df)), Accepted(df, SameSettings(dyn)))

====
